---- MODULE Spec2Model ----
(***************************************************************************)
(* A model of the request execution core of cappfm/spotify-go              *)
(* (src/spotify.go): Client construction, the two request loops            *)
(* Client.execute and Client.get, retryDuration, sleep and decodeError.    *)
(*                                                                         *)
(* One logical call at a time runs on a Client built by New.  A call is    *)
(* split at the points where the environment acts: the transport answers   *)
(* a send (Do), time passes while the call sleeps (Tick), the caller       *)
(* cancels the context (Cancel).  Durations are counted in whole seconds   *)
(* (every duration of the code is a multiple of time.Second).              *)
(* Strings that the code parses are sequences of one-character strings.    *)
(***************************************************************************)
EXTENDS Integers, Sequences, FiniteSets, TLC

\* ------------------------------------------------------------ bounds

\* Most physical attempts one logical call makes in the model.  The loops of
\* the code have no cap; a call that would go on is left asleep.
MaxAttempts == 3

\* Most options handed to New.
MaxOpts == 2

\* ------------------------------------------------- program constants

\* defaultRetryDuration = time.Second * 5, in seconds.
defaultRetryDuration == 5

\* rateLimitExceededStatusCode
rateLimitExceededStatusCode == 429

\* net/http status codes the code names.
StatusOK == 200
StatusAccepted == 202
StatusNoContent == 204
StatusTooManyRequests == 429

\* bitSize 32 of strconv.ParseInt(raw, 10, 32): the largest value it accepts.
MaxInt32 == 2147483647
MinInt32 == -MaxInt32 - 1

\* ------------------------------------------------------ strconv.ParseInt

\* The value of a decimal digit character, -1 for any other character.
DigitVal(ch) ==
    CASE ch = "0" -> 0 [] ch = "1" -> 1 [] ch = "2" -> 2 [] ch = "3" -> 3
      [] ch = "4" -> 4 [] ch = "5" -> 5 [] ch = "6" -> 6 [] ch = "7" -> 7
      [] ch = "8" -> 8 [] ch = "9" -> 9 [] OTHER -> -1

\* The digits of s from position i on, accumulated onto acc.  The magnitude is
\* accumulated as a non-positive number, so that 2^31 (the magnitude of the
\* smallest value) is representable.  "syntax": a character that is no digit;
\* "range": the value leaves the 32-bit range.
RECURSIVE ParseDigits(_, _, _, _)
ParseDigits(s, i, acc, neg) ==
    IF i > Len(s)
    THEN IF ~neg /\ acc = MinInt32
         THEN [err |-> "range", val |-> 0]
         ELSE [err |-> "nil", val |-> IF neg THEN acc ELSE -acc]
    ELSE LET d == DigitVal(s[i])
         IN IF d < 0
            THEN [err |-> "syntax", val |-> 0]
            ELSE IF acc < -(MaxInt32 \div 10)
                 THEN [err |-> "range", val |-> 0]
                 ELSE IF acc * 10 < MinInt32 + d
                      THEN [err |-> "range", val |-> 0]
                      ELSE ParseDigits(s, i + 1, acc * 10 - d, neg)

\* strconv.ParseInt(s, 10, 32): an optional sign, then at least one digit.
ParseInt(s) ==
    IF Len(s) = 0
    THEN [err |-> "syntax", val |-> 0]
    ELSE LET signed == s[1] = "+" \/ s[1] = "-"
             neg == s[1] = "-"
             first == IF signed THEN 2 ELSE 1
         IN IF first > Len(s)
            THEN [err |-> "syntax", val |-> 0]
            ELSE ParseDigits(s, first, 0, neg)

\* ------------------------------------------------------------ values

\* The text of an error.  fmt names the format: "literal" is the text itself,
\* the others are the formats of decodeError with their arguments.
mkMsg(fmt, code, text) == [fmt |-> fmt, code |-> code, text |-> text]

EmptyMsg == mkMsg("literal", 0, "")

\* A returned error.  kind "nil" is no error; the other kinds are
\*   "build"            the error of http.NewRequestWithContext
\*   "transport"        the error of c.http.Do
\*   "ctx"              ctx.Err() of a cancelled context
\*   "TooManyRequests"  *TooManyRequestsError, retryAfter its RetryAfter
\*   "Error"            the type Error, message and status its fields
\*   "errorString"      an error made by fmt.Errorf, message its text
\*   "read"             the error of reading the response body
\*   "json"             the error of json.Decoder.Decode
mkErr(kind, message, status, retryAfter) ==
    [kind |-> kind, message |-> message, status |-> status,
     retryAfter |-> retryAfter]

NilErr == mkErr("nil", EmptyMsg, 0, 0)

\* http.StatusText, on the codes the model uses.
StatusText(code) ==
    CASE code = 200 -> "OK"
      [] code = 201 -> "Created"
      [] code = 202 -> "Accepted"
      [] code = 204 -> "No Content"
      [] code = 301 -> "Moved Permanently"
      [] code = 404 -> "Not Found"
      [] code = 429 -> "Too Many Requests"
      [] OTHER -> ""

\* A response body.  kind is what the bytes are:
\*   "empty"     no bytes
\*   "garbage"   bytes that are not JSON
\*   "object"    a JSON object without an "error" member, holding val
\*   "envelope"  {"error": {"message": message, "status": status}}
\*   "broken"    a body whose read fails
\* len is the number of bytes, val what a decode into a destination yields.
mkBody(kind, message, status, val, len) ==
    [kind |-> kind, message |-> message, status |-> status, val |-> val,
     len |-> len]

Bodies ==
    { mkBody("empty", "", 0, "none", 0),
      mkBody("garbage", "", 0, "none", 6),
      mkBody("object", "", 0, "v1", 10),
      mkBody("envelope", "not found", 404, "errobj", 46),
      mkBody("envelope", "", 400, "errobj", 37),
      mkBody("broken", "", 0, "none", 0) }

\* The values of a Retry-After header the server may send.
RetryAfterValues ==
    { <<>>, <<"0">>, <<"2">>, <<"-", "1">>, <<"a", "b", "c">>,
      <<"9", "9", "9", "9", "9", "9", "9", "9", "9", "9", "9">> }

\* The Retry-After header of a response: absent, or present with a value.
RetryAfterHeaders ==
    { [present |-> FALSE, value |-> <<>>] }
        \cup { [present |-> TRUE, value |-> v] : v \in RetryAfterValues }

\* resp.Header.Get("Retry-After"): the value, "" when the header is absent.
HeaderGet(h) == IF h.present THEN h.value ELSE <<>>

\* The status codes the server may answer with.
Statuses == {200, 201, 202, 204, 301, 404, 429}

\* An *http.Response; NoResponse is the nil response.  The server sends a
\* Retry-After header with the statuses the code reads it on, 202 and 429.
mkResp(status, retryAfter, body) ==
    [nil |-> FALSE, StatusCode |-> status, retryAfter |-> retryAfter,
     body |-> body]

NoResponse ==
    [nil |-> TRUE, StatusCode |-> 0,
     retryAfter |-> [present |-> FALSE, value |-> <<>>],
     body |-> mkBody("empty", "", 0, "none", 0)]

Responses ==
    { mkResp(s, h, b) :
        s \in {StatusAccepted, StatusTooManyRequests},
        h \in RetryAfterHeaders, b \in Bodies }
      \cup
    { mkResp(s, [present |-> FALSE, value |-> <<>>], b) :
        s \in Statuses, b \in Bodies }

\* ----------------------------------------------------- Client and New

\* A ClientOption, before it is applied: the option and its argument.
mkOption(opt, flag, str) == [opt |-> opt, flag |-> flag, str |-> str]

WithRetry(shouldRetryArg) == mkOption("WithRetry", shouldRetryArg, "")
WithBaseURL(url) == mkOption("WithBaseURL", FALSE, url)
WithAcceptLanguage(lang) == mkOption("WithAcceptLanguage", FALSE, lang)

\* opt(c): what applying an option does to the client.
ApplyOption(c, o) ==
    CASE o.opt = "WithRetry" -> [c EXCEPT !.autoRetry = o.flag]
      [] o.opt = "WithBaseURL" -> [c EXCEPT !.baseURL = o.str]
      [] o.opt = "WithAcceptLanguage" -> [c EXCEPT !.acceptLanguage = o.str]

RECURSIVE ApplyOptions(_, _)
ApplyOptions(c, opts) ==
    IF opts = <<>> THEN c
    ELSE ApplyOptions(ApplyOption(c, Head(opts)), Tail(opts))

\* New(httpClient, opts...)
New(httpClient, opts) ==
    ApplyOptions([http |-> httpClient,
                  baseURL |-> "https://api.spotify.com/v1/",
                  autoRetry |-> FALSE,
                  acceptLanguage |-> ""], opts)

\* The options a caller may hand to New, and the lists of at most MaxOpts.
Options ==
    { WithRetry(TRUE), WithRetry(FALSE), WithBaseURL("https://staging/"),
      WithAcceptLanguage("en") }

OptionLists == UNION { [1..n -> Options] : n \in 0..MaxOpts }

\* ------------------------------------------------------ pure functions

\* shouldRetry(status)
shouldRetry(status) ==
    status = StatusAccepted \/ status = StatusTooManyRequests

\* isFailure without the look at validCodes: every code is a failure.
isFailure_IgnoresValidCodes(code, validCodes) == TRUE

\* isFailure(code, validCodes)
isFailure(code, validCodes) == code \notin validCodes

\* retryDuration that never reads the header.
retryDuration_AlwaysDefault(r) == defaultRetryDuration

\* retryDuration(resp), in seconds.
retryDuration(r) ==
    LET raw == HeaderGet(r.retryAfter)
    IN IF raw = <<>>
       THEN defaultRetryDuration
       ELSE LET parsed == ParseInt(raw)
            IN IF parsed.err # "nil"
               THEN defaultRetryDuration
               ELSE parsed.val

\* decodeError without the fallback for an envelope whose message is empty.
decodeError_NoFallback(r) ==
    LET b == r.body
    IN IF b.kind = "broken"
       THEN mkErr("read", EmptyMsg, 0, 0)
       ELSE IF b.len = 0
       THEN mkErr("errorString",
                  mkMsg("HTTP %d: %s (body empty)", r.StatusCode,
                        StatusText(r.StatusCode)), 0, 0)
       ELSE IF b.kind = "garbage"
       THEN mkErr("errorString",
                  mkMsg("couldn't decode error: (%d) [%s]", b.len, b.kind),
                  0, 0)
       ELSE mkErr("Error", mkMsg("literal", 0, b.message), b.status, 0)

\* c.decodeError(resp)
decodeError(r) ==
    LET b == r.body
        fallback == mkMsg("unexpected HTTP %d: %s (empty error)",
                          r.StatusCode, StatusText(r.StatusCode))
    IN IF b.kind = "broken"
       THEN mkErr("read", EmptyMsg, 0, 0)
       ELSE IF b.len = 0
       THEN mkErr("errorString",
                  mkMsg("HTTP %d: %s (body empty)",
                        r.StatusCode, StatusText(r.StatusCode)), 0, 0)
       ELSE IF b.kind = "garbage"
       THEN mkErr("errorString",
                  mkMsg("couldn't decode error: (%d) [%s]", b.len, b.kind),
                  0, 0)
       ELSE IF b.message = ""
       THEN mkErr("Error", fallback, b.status, 0)
       ELSE mkErr("Error", mkMsg("literal", 0, b.message), b.status, 0)

\* json.NewDecoder(resp.Body).Decode(result): the error, and the value the
\* destination holds afterwards (old: the value it held before).
jsonDecode(b, hasDest, old) ==
    IF b.kind = "broken"
    THEN [err |-> mkErr("read", EmptyMsg, 0, 0), val |-> old]
    ELSE IF b.kind \in {"empty", "garbage"} \/ ~hasDest
    THEN [err |-> mkErr("json", EmptyMsg, 0, 0), val |-> old]
    ELSE [err |-> NilErr, val |-> b.val]

\* sleep that ends with "return nil".
sleepResult_AlwaysNil(cancelled) == NilErr

\* What sleep returns: ctx.Err().
sleepResult(cancelled) ==
    IF cancelled THEN mkErr("ctx", EmptyMsg, 0, 0) ELSE NilErr

\* The execution event recorded after the check of the error of the send:
\* a failed send (status code 0) reports nothing.
RecordLatency_SkipFailed(evs, statusCode) ==
    IF statusCode = 0 THEN evs ELSE Append(evs, statusCode)

\* metricLatencyHist.Record: one more execution event, tagged with the status.
RecordLatency(evs, statusCode) == Append(evs, statusCode)

\* -------------------------------------------------------------- state

VARIABLES
    client,       \* the Client New returned
    pc,           \* where the logical call is: "idle", "build", "do",
                  \* "classify", "sleep", "done", "panic"
    fn,           \* the loop that runs: "execute", "get", "none"
    needsStatus,  \* execute's needsStatus: the extra success codes
    hasResult,    \* whether result is not nil
    urlValid,     \* get: whether http.NewRequestWithContext accepts the url
    reqLang,      \* the Accept-Language header of the request, "" if unset
    cancelled,    \* whether the call's context is cancelled
    attempts,     \* the sends (c.http.Do) of this call
    events,       \* the status codes recorded to metricLatencyHist
    resp,         \* the response of the last send
    doErr,        \* the error of the last send
    sleeps,       \* the sleeps of this call
    sleepLeft,    \* seconds until the timer of the current sleep fires
    wokenBy,      \* what ended the last sleep: "timer", "ctx", "none"
    ret,          \* the error the call returned
    dest,         \* the value the destination holds
    decodes,      \* decodes of a success body into the destination
    errDecodes,   \* calls of decodeError
    prev          \* history: the last successful Get the caller remembers

vars ==
    << client, pc, fn, needsStatus, hasResult, urlValid, reqLang, cancelled,
       attempts, events, resp, doErr, sleeps, sleepLeft, wokenBy, ret, dest,
       decodes, errDecodes, prev >>

callVars ==
    << fn, needsStatus, hasResult, urlValid >>

\* The state of a call that has not started.
Fresh ==
    /\ reqLang = ""
    /\ cancelled = FALSE
    /\ attempts = 0
    /\ events = <<>>
    /\ resp = NoResponse
    /\ doErr = NilErr
    /\ sleeps = 0
    /\ sleepLeft = 0
    /\ wokenBy = "none"
    /\ ret = NilErr
    /\ dest = "old"
    /\ decodes = 0
    /\ errDecodes = 0

\* Nothing remembered of an earlier call.
NoPrev ==
    [set |-> FALSE, body |-> NoResponse.body, ret |-> NilErr, dest |-> "old",
     decodes |-> 0]

Init ==
    /\ \E opts \in OptionLists : client = New("httpClient", opts)
    /\ prev = NoPrev
    /\ pc = "idle"
    /\ fn = "none"
    /\ needsStatus = {}
    /\ hasResult = FALSE
    /\ urlValid = TRUE
    /\ Fresh

\* The extra success codes a caller of execute may pass.
NeedsStatusChoices == { {}, {404}, {202, 204, 429} }

\* ------------------------------------------------------------ actions

\* c.execute(req, result, needsStatus...) up to the loop: the request is
\* built by the caller; the Accept-Language header is set once.
CallExecute ==
    /\ pc = "idle"
    /\ \E ns \in NeedsStatusChoices, hr \in BOOLEAN :
          /\ needsStatus' = ns
          /\ hasResult' = hr
    /\ fn' = "execute"
    /\ urlValid' = TRUE
    /\ reqLang' = client.acceptLanguage
    /\ pc' = "do"
    /\ UNCHANGED << client, prev, cancelled, attempts, events, resp, doErr,
                    sleeps, sleepLeft, wokenBy, ret, dest, decodes, errDecodes
                    >>

\* Get keeping the joined URL in the Client, where the code joins it in a
\* local expression.
CallGet_StoresURL ==
    /\ pc = "idle"
    /\ \E uv \in BOOLEAN, hr \in BOOLEAN :
          /\ urlValid' = uv
          /\ hasResult' = hr
    /\ fn' = "get"
    /\ needsStatus' = {}
    /\ pc' = "build"
    /\ client' = [client EXCEPT !.baseURL = "https://api.spotify.com/v1/path"]
    /\ UNCHANGED << prev, reqLang, cancelled, attempts, events, resp, doErr,
                    sleeps, sleepLeft, wokenBy, ret, dest, decodes,
                    errDecodes >>

\* c.get(ctx, url, result) (also through c.Get) up to the loop.
CallGet ==
    /\ pc = "idle"
    /\ \E uv \in BOOLEAN, hr \in BOOLEAN :
          /\ urlValid' = uv
          /\ hasResult' = hr
    /\ fn' = "get"
    /\ needsStatus' = {}
    /\ pc' = "build"
    /\ UNCHANGED << client, prev, reqLang, cancelled, attempts, events, resp,
                    doErr, sleeps, sleepLeft, wokenBy, ret, dest, decodes,
                    errDecodes >>

\* get, the head of the loop: the request is built, the Accept-Language
\* header is set on it before the error of the build is looked at.  With a
\* failed build req is nil, and setting a header on it is a nil dereference.
BuildRequest ==
    /\ pc = "build"
    /\ IF urlValid
       THEN /\ reqLang' = client.acceptLanguage
            /\ pc' = "do"
            /\ ret' = ret
       ELSE IF client.acceptLanguage # ""
       THEN /\ pc' = "panic"
            /\ UNCHANGED << reqLang, ret >>
       ELSE /\ pc' = "done"
            /\ ret' = mkErr("build", EmptyMsg, 0, 0)
            /\ reqLang' = reqLang
    /\ UNCHANGED << client, prev, callVars, cancelled, attempts, events, resp,
                    doErr, sleeps, sleepLeft, wokenBy, dest, decodes,
                    errDecodes >>

\* What a send may come back with: a response, a transport error with no
\* response, or (a refused redirect) a transport error beside a response.
TransportErr == mkErr("transport", EmptyMsg, 0, 0)

DoOutcomes ==
    { [resp |-> r, err |-> NilErr] : r \in Responses }
        \cup { [resp |-> NoResponse, err |-> TransportErr] }
        \cup { [resp |-> mkResp(301, [present |-> FALSE, value |-> <<>>],
                                mkBody("empty", "", 0, "none", 0)),
                err |-> TransportErr] }

\* statusCode of the loops: 0 unless there is a response.
statusCodeOf(r) == IF r.nil THEN 0 ELSE r.StatusCode

\* One physical attempt: c.http.Do(req), then the execution event.
Do ==
    /\ pc = "do"
    /\ \E o \in DoOutcomes :
          /\ resp' = o.resp
          /\ doErr' = o.err
          /\ events' = RecordLatency(events, statusCodeOf(o.resp))
    /\ attempts' = attempts + 1
    /\ pc' = "classify"
    /\ UNCHANGED << client, prev, callVars, reqLang, cancelled, sleeps,
                    sleepLeft, wokenBy, ret, dest, decodes, errDecodes >>

\* What the rest of one loop iteration decides: to return err, or to sleep
\* for dur and go round again; the value the destination holds afterwards;
\* whether the success body was decoded and whether decodeError ran.
Returns(e, old) ==
    [next |-> "return", err |-> e, dur |-> 0, dest |-> old,
     decoded |-> FALSE, errDecoded |-> FALSE]

Sleeps(d, old) ==
    [next |-> "sleep", err |-> NilErr, dur |-> d, dest |-> old,
     decoded |-> FALSE, errDecoded |-> FALSE]

\* executeClassify with the check of c.autoRetry left out: a retry-worthy
\* status is always slept on and retried.
executeClassify_RetryAlways(c, r, e, validCodes, hasDest, old) ==
    IF e # NilErr
    THEN Returns(e, old)
    ELSE IF shouldRetry(r.StatusCode)
    THEN Sleeps(retryDuration(r), old)
    ELSE IF r.StatusCode = StatusNoContent
    THEN Returns(NilErr, old)
    ELSE IF (r.StatusCode >= 300 \/ r.StatusCode < 200)
            /\ isFailure(r.StatusCode, validCodes)
    THEN [Returns(decodeError(r), old) EXCEPT !.errDecoded = TRUE]
    ELSE IF hasDest
    THEN LET d == jsonDecode(r.body, hasDest, old)
         IN [Returns(d.err, d.val) EXCEPT !.decoded = TRUE]
    ELSE Returns(NilErr, old)

\* executeClassify accepting StatusOK alone, as get does: every other status
\* is handed to decodeError.
executeClassify_OnlyOK(c, r, e, validCodes, hasDest, old) ==
    IF e # NilErr
    THEN Returns(e, old)
    ELSE IF shouldRetry(r.StatusCode)
    THEN IF c.autoRetry
         THEN Sleeps(retryDuration(r), old)
         ELSE Returns(mkErr("TooManyRequests", EmptyMsg, 0, retryDuration(r)),
                      old)
    ELSE IF r.StatusCode = StatusNoContent
    THEN Returns(NilErr, old)
    ELSE IF r.StatusCode # StatusOK /\ isFailure(r.StatusCode, validCodes)
    THEN [Returns(decodeError(r), old) EXCEPT !.errDecoded = TRUE]
    ELSE IF hasDest
    THEN LET d == jsonDecode(r.body, hasDest, old)
         IN [Returns(d.err, d.val) EXCEPT !.decoded = TRUE]
    ELSE Returns(NilErr, old)

\* executeClassify without the check for StatusNoContent.
executeClassify_No204(c, r, e, validCodes, hasDest, old) ==
    IF e # NilErr
    THEN Returns(e, old)
    ELSE IF shouldRetry(r.StatusCode)
    THEN IF c.autoRetry
         THEN Sleeps(retryDuration(r), old)
         ELSE Returns(mkErr("TooManyRequests", EmptyMsg, 0, retryDuration(r)),
                      old)
    ELSE IF (r.StatusCode >= 300 \/ r.StatusCode < 200)
            /\ isFailure(r.StatusCode, validCodes)
    THEN [Returns(decodeError(r), old) EXCEPT !.errDecoded = TRUE]
    ELSE IF hasDest
    THEN LET d == jsonDecode(r.body, hasDest, old)
         IN [Returns(d.err, d.val) EXCEPT !.decoded = TRUE]
    ELSE Returns(NilErr, old)

\* executeClassify decoding the body before it looks at the status: the body
\* of a response that is slept on and retried reaches the destination too.
executeClassify_DecodeFirst(c, r, e, validCodes, hasDest, old) ==
    IF e # NilErr
    THEN Returns(e, old)
    ELSE LET d == jsonDecode(r.body, hasDest, old)
         IN IF shouldRetry(r.StatusCode)
            THEN IF c.autoRetry
                 THEN [Sleeps(retryDuration(r), d.val)
                          EXCEPT !.decoded = hasDest]
                 ELSE Returns(mkErr("TooManyRequests", EmptyMsg, 0,
                                    retryDuration(r)), old)
            ELSE IF r.StatusCode = StatusNoContent
            THEN Returns(NilErr, old)
            ELSE IF (r.StatusCode >= 300 \/ r.StatusCode < 200)
                    /\ isFailure(r.StatusCode, validCodes)
            THEN [Returns(decodeError(r), old) EXCEPT !.errDecoded = TRUE]
            ELSE IF hasDest
            THEN [Returns(d.err, d.val) EXCEPT !.decoded = TRUE]
            ELSE Returns(NilErr, old)

\* execute, from "if err != nil" to the end of the loop body.
executeClassify(c, r, e, validCodes, hasDest, old) ==
    IF e # NilErr
    THEN Returns(e, old)
    ELSE IF shouldRetry(r.StatusCode)
    THEN IF c.autoRetry
         THEN Sleeps(retryDuration(r), old)
         ELSE Returns(mkErr("TooManyRequests", EmptyMsg, 0, retryDuration(r)),
                      old)
    ELSE IF r.StatusCode = StatusNoContent
    THEN Returns(NilErr, old)
    ELSE IF (r.StatusCode >= 300 \/ r.StatusCode < 200)
            /\ isFailure(r.StatusCode, validCodes)
    THEN [Returns(decodeError(r), old) EXCEPT !.errDecoded = TRUE]
    ELSE IF hasDest
    THEN LET d == jsonDecode(r.body, hasDest, old)
         IN [Returns(d.err, d.val) EXCEPT !.decoded = TRUE]
    ELSE Returns(NilErr, old)

\* getClassify without the check of the error of the send.
getClassify_NoErrCheck(c, r, e, hasDest, old) ==
    IF r.StatusCode = rateLimitExceededStatusCode
    THEN IF c.autoRetry
         THEN Sleeps(retryDuration(r), old)
         ELSE Returns(mkErr("TooManyRequests", EmptyMsg, 0, retryDuration(r)),
                      old)
    ELSE IF r.StatusCode = StatusNoContent
    THEN Returns(NilErr, old)
    ELSE IF r.StatusCode # StatusOK
    THEN [Returns(decodeError(r), old) EXCEPT !.errDecoded = TRUE]
    ELSE LET d == jsonDecode(r.body, hasDest, old)
         IN [Returns(d.err, d.val) EXCEPT !.decoded = TRUE]

\* getClassify without the check for StatusNoContent.
getClassify_No204(c, r, e, hasDest, old) ==
    IF e # NilErr
    THEN Returns(e, old)
    ELSE IF r.StatusCode = rateLimitExceededStatusCode
    THEN IF c.autoRetry
         THEN Sleeps(retryDuration(r), old)
         ELSE Returns(mkErr("TooManyRequests", EmptyMsg, 0, retryDuration(r)),
                      old)
    ELSE IF r.StatusCode # StatusOK
    THEN [Returns(decodeError(r), old) EXCEPT !.errDecoded = TRUE]
    ELSE LET d == jsonDecode(r.body, hasDest, old)
         IN [Returns(d.err, d.val) EXCEPT !.decoded = TRUE]

\* getClassify returning on a 200 without decoding the body.
getClassify_NoDecode(c, r, e, hasDest, old) ==
    IF e # NilErr
    THEN Returns(e, old)
    ELSE IF r.StatusCode = rateLimitExceededStatusCode
    THEN IF c.autoRetry
         THEN Sleeps(retryDuration(r), old)
         ELSE Returns(mkErr("TooManyRequests", EmptyMsg, 0, retryDuration(r)),
                      old)
    ELSE IF r.StatusCode = StatusNoContent
    THEN Returns(NilErr, old)
    ELSE IF r.StatusCode # StatusOK
    THEN [Returns(decodeError(r), old) EXCEPT !.errDecoded = TRUE]
    ELSE Returns(NilErr, old)

\* get, from "if err != nil" to the end of the loop body.
getClassify(c, r, e, hasDest, old) ==
    IF e # NilErr
    THEN Returns(e, old)
    ELSE IF r.StatusCode = rateLimitExceededStatusCode
    THEN IF c.autoRetry
         THEN Sleeps(retryDuration(r), old)
         ELSE Returns(mkErr("TooManyRequests", EmptyMsg, 0, retryDuration(r)),
                      old)
    ELSE IF r.StatusCode = StatusNoContent
    THEN Returns(NilErr, old)
    ELSE IF r.StatusCode # StatusOK
    THEN [Returns(decodeError(r), old) EXCEPT !.errDecoded = TRUE]
    ELSE LET d == jsonDecode(r.body, hasDest, old)
         IN [Returns(d.err, d.val) EXCEPT !.decoded = TRUE]

\* The call acts on what an iteration decided.
Act(o) ==
    /\ pc' = IF o.next = "sleep" THEN "sleep" ELSE "done"
    /\ ret' = o.err
    /\ dest' = o.dest
    /\ decodes' = IF o.decoded THEN decodes + 1 ELSE decodes
    /\ errDecodes' = IF o.errDecoded THEN errDecodes + 1 ELSE errDecodes
    /\ sleeps' = IF o.next = "sleep" THEN sleeps + 1 ELSE sleeps
    /\ sleepLeft' = IF o.next = "sleep" THEN o.dur ELSE sleepLeft
    /\ UNCHANGED << client, prev, callVars, reqLang, cancelled, attempts,
                    events, resp, doErr, wokenBy >>

\* execute: the response of the attempt is classified.
ClassifyExecute ==
    /\ pc = "classify"
    /\ fn = "execute"
    /\ Act(executeClassify(client, resp, doErr, needsStatus, hasResult, dest))

\* get: the response of the attempt is classified.
ClassifyGet ==
    /\ pc = "classify"
    /\ fn = "get"
    /\ Act(getClassify(client, resp, doErr, hasResult, dest))

\* AfterSleep of a loop that gives up after its second attempt: it returns
\* what sleep returned instead of going round again.
AfterSleep_GivesUp(e, by) ==
    /\ wokenBy' = by
    /\ IF e # NilErr \/ attempts >= 2
       THEN /\ pc' = "done"
            /\ ret' = e
            /\ sleepLeft' = sleepLeft
       ELSE /\ attempts < MaxAttempts
            /\ pc' = IF fn = "get" THEN "build" ELSE "do"
            /\ ret' = ret
            /\ sleepLeft' = 0
    /\ UNCHANGED << client, prev, callVars, reqLang, cancelled, attempts,
                    events, resp, doErr, sleeps, dest, decodes, errDecodes >>

\* sleep has returned e: the loop returns it, or goes round again.
AfterSleep(e, by) ==
    /\ wokenBy' = by
    /\ IF e # NilErr
       THEN /\ pc' = "done"
            /\ ret' = e
            /\ sleepLeft' = sleepLeft
       ELSE /\ attempts < MaxAttempts
            /\ pc' = IF fn = "get" THEN "build" ELSE "do"
            /\ ret' = ret
            /\ sleepLeft' = 0
    /\ UNCHANGED << client, prev, callVars, reqLang, cancelled, attempts,
                    events, resp, doErr, sleeps, dest, decodes, errDecodes >>

\* A second passes while the call sleeps.
Tick ==
    /\ pc = "sleep"
    /\ sleepLeft > 0
    /\ sleepLeft' = sleepLeft - 1
    /\ UNCHANGED << client, prev, callVars, pc, reqLang, cancelled, attempts,
                    events, resp, doErr, sleeps, wokenBy, ret, dest, decodes,
                    errDecodes >>

\* sleep: the case <-time.After(dur) of the select.
SleepTimer ==
    /\ pc = "sleep"
    /\ sleepLeft <= 0
    /\ AfterSleep(sleepResult(cancelled), "timer")

\* sleep: the case <-ctx.Done() of the select.
SleepCtxDone ==
    /\ pc = "sleep"
    /\ cancelled
    /\ AfterSleep(sleepResult(cancelled), "ctx")

\* The caller cancels the context of the running call.
Cancel ==
    /\ pc \in {"build", "do", "classify", "sleep"}
    /\ ~cancelled
    /\ cancelled' = TRUE
    /\ UNCHANGED << client, prev, callVars, pc, reqLang, attempts, events,
                    resp, doErr, sleeps, sleepLeft, wokenBy, ret, dest,
                    decodes, errDecodes >>

\* The call has returned; the caller may make the next one, with a fresh
\* request, context and destination.
Return ==
    /\ pc = "done"
    /\ pc' = "idle"
    /\ fn' = "none"
    /\ needsStatus' = {}
    /\ hasResult' = FALSE
    /\ urlValid' = TRUE
    /\ reqLang' = ""
    /\ cancelled' = FALSE
    /\ attempts' = 0
    /\ events' = <<>>
    /\ resp' = NoResponse
    /\ doErr' = NilErr
    /\ sleeps' = 0
    /\ sleepLeft' = 0
    /\ wokenBy' = "none"
    /\ ret' = NilErr
    /\ dest' = "old"
    /\ decodes' = 0
    /\ errDecodes' = 0
    /\ UNCHANGED << client, prev >>

\* Return, with the caller remembering what a Get with a destination gave on
\* a 200 with a JSON body (the body, the error, the value decoded), to make
\* the same Get once more on the same Client.
ReturnRemembered ==
    /\ pc = "done"
    /\ pc' = "idle"
    /\ fn' = "none"
    /\ needsStatus' = {}
    /\ hasResult' = FALSE
    /\ urlValid' = TRUE
    /\ reqLang' = ""
    /\ cancelled' = FALSE
    /\ attempts' = 0
    /\ events' = <<>>
    /\ resp' = NoResponse
    /\ doErr' = NilErr
    /\ sleeps' = 0
    /\ sleepLeft' = 0
    /\ wokenBy' = "none"
    /\ ret' = NilErr
    /\ dest' = "old"
    /\ decodes' = 0
    /\ errDecodes' = 0
    /\ prev' = IF /\ fn = "get"
                  /\ hasResult
                  /\ ~resp.nil
                  /\ doErr = NilErr
                  /\ resp.StatusCode = StatusOK
                  /\ resp.body.kind \in {"object", "envelope"}
               THEN [set |-> TRUE, body |-> resp.body, ret |-> ret,
                     dest |-> dest, decodes |-> decodes]
               ELSE prev
    /\ UNCHANGED client

Next ==
    \/ CallExecute
    \/ CallGet
    \/ BuildRequest
    \/ Do
    \/ ClassifyExecute
    \/ ClassifyGet
    \/ Tick
    \/ SleepTimer
    \/ SleepCtxDone
    \/ Cancel
    \/ Return

Spec == Init /\ [][Next]_vars

\* Calls on a Client built with WithRetry(true), the configuration in which
\* the loops go round.
InitRetry ==
    /\ client = New("httpClient", << WithRetry(TRUE) >>)
    /\ prev = NoPrev
    /\ pc = "idle"
    /\ fn = "none"
    /\ needsStatus = {}
    /\ hasResult = FALSE
    /\ urlValid = TRUE
    /\ Fresh

\* Such calls, with the steps the program and its timer do not put off for
\* ever: the classification of a response that has arrived is straight-line
\* code, the timer of time.After runs down and fires, and a select with a
\* closed ctx.Done() channel does not block.  Nothing is asked of the
\* server, of the transport or of the caller.
SpecFair ==
    /\ InitRetry
    /\ [][Next]_vars
    /\ WF_vars(ClassifyExecute)
    /\ WF_vars(ClassifyGet)
    /\ WF_vars(Tick)
    /\ WF_vars(SleepTimer)
    /\ WF_vars(SleepCtxDone)

\* Calls of Get one after the other on one Client, the caller remembering
\* the last successful one.
NextGets ==
    \/ CallGet
    \/ BuildRequest
    \/ Do
    \/ ClassifyGet
    \/ Tick
    \/ SleepTimer
    \/ SleepCtxDone
    \/ Cancel
    \/ ReturnRemembered

SpecGets == Init /\ [][NextGets]_vars

\* ------------------------------------------------------------- claims

\* The statuses after which a loop goes round again: 202 and 429 in execute,
\* 429 alone in get.
RetryWorthy(f, status) ==
    IF f = "execute" THEN status \in {202, 429} ELSE status = 429

\* C1: a further physical attempt is issued only if the previous attempt
\* received a response with a retry-worthy status (202 or 429 in execute, 429
\* in get) and autoRetry is set: a call that is asleep before a retry, or has
\* sent more than once, has autoRetry set and only retry-worthy statuses
\* before its last attempt; and a call that has returned after a first
\* attempt that was a transport error, or had a status that is not
\* retry-worthy, or on a client without autoRetry, has sent exactly once.
C1_RetryOnlyWhenWorthyAndEnabled ==
    /\ (attempts > 1 \/ pc = "sleep")
          => /\ client.autoRetry
             /\ \A i \in 1..(Len(events) - 1) : RetryWorthy(fn, events[i])
    /\ pc = "sleep" => doErr = NilErr /\ RetryWorthy(fn, resp.StatusCode)
    /\ (pc = "done" /\ attempts >= 1
          /\ (~client.autoRetry \/ ~RetryWorthy(fn, events[1])))
          => attempts = 1

\* C1, its case: execute has sent a second time after a 202.
C1_Witness ==
    /\ fn = "execute"
    /\ attempts = 2
    /\ events[1] = 202
    /\ pc = "classify"

\* C2: the retry delay is strictly positive for every Retry-After header:
\* retryDuration of every response received is positive (a call that sleeps
\* sleeps for retryDuration of its last response), and no
\* TooManyRequestsError carries a delay <= 0.
C2_RetryDelayPositive ==
    /\ ~resp.nil => retryDuration(resp) > 0
    /\ ret.kind = "TooManyRequests" => ret.retryAfter > 0

\* The delay of the reference rule: n seconds if the header is present and
\* parses as a non-negative integer n, the default of 5 seconds otherwise.
ReferenceDelay(h) ==
    LET parsed == ParseInt(HeaderGet(h))
    IN IF h.present /\ parsed.err = "nil" /\ parsed.val >= 0
       THEN parsed.val
       ELSE 5

\* C3: retryDuration agrees with the reference rule on the response of every
\* attempt, and so does the delay a TooManyRequestsError carries.
C3_RetryDurationIsReference ==
    /\ ~resp.nil => retryDuration(resp) = ReferenceDelay(resp.retryAfter)
    /\ (pc = "done" /\ ret.kind = "TooManyRequests")
          => ret.retryAfter = ReferenceDelay(resp.retryAfter)

\* A response body that is valid JSON for the destination.
ValidJSON(b) == b.kind \in {"object", "envelope"}

\* The call has returned after an attempt that received a response.
ReturnedOnResponse == pc = "done" /\ ~resp.nil /\ doErr = NilErr

\* C4 as stated: for every status in [200,299] other than 204, with a
\* destination and a valid JSON body, execute and get populate the
\* destination from the body and return no error.
C4_Every2xxDecodes ==
    (/\ ReturnedOnResponse
     /\ resp.StatusCode \in (200..299) \ {204}
     /\ hasResult
     /\ ValidJSON(resp.body))
        => ret = NilErr /\ dest = resp.body.val

\* The statuses each loop takes as a success with a body.
SuccessStatus(f, status) ==
    IF f = "execute"
    THEN status \in (200..299) \ {202, 204}
    ELSE status = 200

\* C4, amended: the same for every 2xx status other than 202 and 204 in
\* execute, and for status 200 alone in get; the body is decoded once.
C4_SuccessStatusDecodes ==
    (/\ ReturnedOnResponse
     /\ SuccessStatus(fn, resp.StatusCode)
     /\ hasResult
     /\ ValidJSON(resp.body))
        => ret = NilErr /\ dest = resp.body.val /\ decodes = 1

\* C4, its case: execute has decoded the body of a 201 into the destination.
C4_Witness ==
    /\ ReturnedOnResponse
    /\ fn = "execute"
    /\ resp.StatusCode = 201
    /\ hasResult
    /\ dest = "v1"

\* C5: after a 204, in execute and in get, the call returns nil, nothing is
\* decoded and the destination is unchanged, whatever the body, autoRetry
\* and the extra success codes are.
C5_NoContentReturnsNil ==
    (ReturnedOnResponse /\ resp.StatusCode = 204)
        => /\ ret = NilErr
           /\ decodes = 0
           /\ errDecodes = 0
           /\ dest = "old"

\* C5, its case: execute, with 204 among the extra success codes and a
\* destination, has returned on a 204 whose body is valid JSON.
C5_Witness ==
    /\ ReturnedOnResponse
    /\ resp.StatusCode = 204
    /\ fn = "execute"
    /\ 204 \in needsStatus
    /\ hasResult
    /\ ValidJSON(resp.body)
    /\ client.autoRetry

\* C6: a call returns a TooManyRequestsError only if autoRetry is off and the
\* last response had status 429.
C6_RateLimitErrorOnlyOn429 ==
    ret.kind = "TooManyRequests"
        => ~client.autoRetry /\ resp.StatusCode = 429

\* The delay retryDuration is to compute for each header the server sends:
\* the parsed seconds, or 5 when the header is missing or invalid.
ExpectedDelay(h) ==
    CASE ~h.present -> 5
      [] h.value = <<>> -> 5
      [] h.value = <<"0">> -> 0
      [] h.value = <<"1">> -> 1
      [] h.value = <<"2">> -> 2
      [] h.value = <<"-", "1">> -> -1
      [] OTHER -> 5

\* C7: after a 429 with autoRetry off the call has failed at once, without a
\* sleep, a second attempt or a decode, with a TooManyRequestsError whose
\* RetryAfter is the delay of that response's Retry-After header.
C7_RateLimitErrorCarriesDelay ==
    (ReturnedOnResponse /\ resp.StatusCode = 429 /\ ~client.autoRetry)
        => /\ ret.kind = "TooManyRequests"
           /\ ret.retryAfter = ExpectedDelay(resp.retryAfter)
           /\ attempts = 1
           /\ sleeps = 0
           /\ decodes = 0
           /\ errDecodes = 0
           /\ dest = "old"

\* C7, its case: get has failed on a 429 with Retry-After: 2.
C7_Witness ==
    /\ ReturnedOnResponse
    /\ fn = "get"
    /\ resp.StatusCode = 429
    /\ resp.retryAfter = [present |-> TRUE, value |-> <<"2">>]
    /\ ~client.autoRetry
    /\ ret.retryAfter = 2

\* C8: one execution event is reported per physical attempt, before the
\* attempt is classified: the events are as many as the sends at every point
\* of a call, the last one carries the status being classified, and a call
\* has slept once between two attempts, and once more if a cancelled sleep
\* ended it.
C8_OneEventPerAttempt ==
    /\ Len(events) = attempts
    /\ pc = "classify" => events[attempts] = statusCodeOf(resp)
    /\ (pc = "done" /\ attempts >= 1)
          => sleeps = IF ret.kind = "ctx" THEN attempts ELSE attempts - 1

\* C8, its case: a 429 with autoRetry, a sleep, then a 200: the call
\* succeeded with two events.
C8_Witness ==
    /\ pc = "done"
    /\ events = <<429, 200>>
    /\ attempts = 2
    /\ sleeps = 1
    /\ ret = NilErr
    /\ dest = "v1"

\* C9: a send that fails with no response ends the call with that error: it
\* is not slept on or retried, nothing is decoded, decodeError does not run,
\* and its execution event carries status code 0.
C9_TransportErrorIsTerminal ==
    (doErr # NilErr /\ resp.nil)
        => /\ pc \in {"classify", "done"}
           /\ pc = "done" => ret = doErr
           /\ events[attempts] = 0
           /\ sleeps = attempts - 1
           /\ decodes = 0
           /\ errDecodes = 0
           /\ dest = "old"

\* C9, its case: with autoRetry, get has returned the transport error of its
\* second send.
C9_Witness ==
    /\ pc = "done"
    /\ fn = "get"
    /\ client.autoRetry
    /\ attempts = 2
    /\ resp.nil
    /\ ret = TransportErr

\* C10: a context cancelled during the sleep before a retry ends the sleep
\* there: the ctx.Done() case is ready whatever is left of the delay, the
\* sleep of a cancelled context is left only by returning the cancellation
\* error, with no further send; and the loop goes round again only from a
\* sleep whose timer fired while the context was not cancelled.
C10_CancelledSleepReturnsCtxErr ==
    /\ [](pc = "sleep" /\ cancelled => ENABLED SleepCtxDone)
    /\ [][(pc = "sleep" /\ pc' # "sleep")
            => IF cancelled
               THEN /\ pc' = "done"
                    /\ ret'.kind = "ctx"
                    /\ attempts' = attempts
               ELSE /\ pc' \in {"do", "build"}
                    /\ sleepLeft <= 0
                    /\ wokenBy' = "timer"]_vars

\* C10, its case: the call has returned the cancellation error from a sleep
\* that had time left.
C10_Witness ==
    /\ pc = "done"
    /\ ret.kind = "ctx"
    /\ wokenBy = "ctx"
    /\ sleepLeft > 0

\* The statuses each loop hands to decodeError, once the retry-worthy ones
\* and 204 are set aside: in execute those outside [200,299] that are no
\* extra success code, in get every one but 200.
FailureStatus(f, status, extra) ==
    IF f = "execute"
    THEN status \notin 200..299 /\ status \notin extra
    ELSE status # 200

\* C11: in a call the success body is decoded into the destination at most
\* once, and only by the attempt that ends the call, on a response that is
\* neither retry-worthy, nor 204, nor a failure status: a call that is still
\* running, that sleeps before a retry or that ended in decodeError has not
\* written to the destination.
C11_DecodeAtMostOnceAtTheEnd ==
    /\ decodes <= 1
    /\ decodes = 0 => dest = "old"
    /\ pc # "done" => decodes = 0
    /\ errDecodes >= 1 => decodes = 0
    /\ decodes = 1
          => /\ ReturnedOnResponse
             /\ ~RetryWorthy(fn, resp.StatusCode)
             /\ resp.StatusCode # 204
             /\ ~FailureStatus(fn, resp.StatusCode, needsStatus)

\* C11, its case: the third attempt of a call, after two that were retried,
\* has decoded its body into the destination.
C11_Witness ==
    /\ pc = "done"
    /\ attempts = 3
    /\ decodes = 1
    /\ dest = "v1"
    /\ ret = NilErr

\* What execute does with the attempt that get is classifying, had the same
\* request been handed to it with the same destination and no extra success
\* code: its next step, error, delay, destination and decodes.
ExecuteOnSameAttempt ==
    executeClassify(client, resp, doErr, {}, hasResult, dest)

\* C12: get is execute restricted to GET: on every attempt, for every
\* response, autoRetry value and destination (none included), get does what
\* execute does with the same request, the same destination and no extra
\* success code.
C12_GetIsExecuteOnGET ==
    (pc = "classify" /\ fn = "get")
        => getClassify(client, resp, doErr, hasResult, dest)
              = ExecuteOnSameAttempt

\* The attempts on which the two loops are written alike: a failed send, a
\* status outside [200,299], a 204, and a 200 with a destination.
SameInBothLoops(r, e, hasDest) ==
    \/ e # NilErr
    \/ r.StatusCode \notin 200..299
    \/ r.StatusCode = 204
    \/ r.StatusCode = 200 /\ hasDest

\* C12, amended: get does what execute does with the same request, the same
\* destination and no extra success code on every attempt whose send failed,
\* whose status is outside [200,299] or 204, or whose status is 200 with a
\* destination supplied.
C12_GetIsExecuteOutside2xx ==
    (pc = "classify" /\ fn = "get" /\ SameInBothLoops(resp, doErr, hasResult))
        => getClassify(client, resp, doErr, hasResult, dest)
              = ExecuteOnSameAttempt

\* C12, its case: get classifies the 404 that followed a retried 429, as
\* execute would.
C12_Witness ==
    /\ pc = "classify"
    /\ fn = "get"
    /\ attempts = 2
    /\ doErr = NilErr
    /\ resp.StatusCode = 404
    /\ hasResult
    /\ ExecuteOnSameAttempt.errDecoded

\* A call that returned what decodeError made of its last response.
ReturnedDecodedError == ReturnedOnResponse /\ errDecodes = 1

\* C13: whatever decodeError returns for a response whose body could be read
\* is a value of type Error with a message and with Status equal to the HTTP
\* status code of the response, for every body: empty, not JSON, an envelope
\* with an empty message, an envelope with a message.
C13_FailureIsErrorWithHTTPStatus ==
    (ReturnedDecodedError /\ resp.body.kind # "broken")
        => /\ ret.kind = "Error"
           /\ ret.message # EmptyMsg
           /\ ret.status = resp.StatusCode

\* The message the case analysis of C14 gives for a response.
ReferenceMessage(r) ==
    CASE r.body.kind = "empty" ->
            mkMsg("HTTP %d: %s (body empty)", r.StatusCode,
                  StatusText(r.StatusCode))
      [] r.body.kind = "garbage" ->
            mkMsg("couldn't decode error: (%d) [%s]", r.body.len, "garbage")
      [] r.body.kind \in {"object", "envelope"} /\ r.body.message = "" ->
            mkMsg("unexpected HTTP %d: %s (empty error)", r.StatusCode,
                  StatusText(r.StatusCode))
      [] OTHER -> mkMsg("literal", 0, r.body.message)

\* C14: the error a call returns from decodeError is never nil and follows
\* the case analysis in its order: the read error when the body cannot be
\* read; for an empty body a message made of the status code and its reason
\* phrase; for a body that is not the JSON envelope the decode-failure
\* message with the length and the content of the body; for an envelope with
\* an empty message the fallback made of the status code and its reason
\* phrase; otherwise the message of the envelope.
C14_DecodeErrorCaseAnalysis ==
    ReturnedDecodedError
        => /\ ret # NilErr
           /\ ret.kind # "nil"
           /\ IF resp.body.kind = "broken"
              THEN ret.kind = "read"
              ELSE /\ ret.kind \in {"errorString", "Error"}
                   /\ ret.message = ReferenceMessage(resp)
                   /\ ret.message # EmptyMsg

\* C14, its case: a 404 whose envelope has an empty message came back as the
\* fallback message made of the status code and its reason phrase.
C14_Witness ==
    /\ ReturnedDecodedError
    /\ resp.StatusCode = 404
    /\ resp.body.kind = "envelope"
    /\ resp.body.message = ""
    /\ ret.message = mkMsg("unexpected HTTP %d: %s (empty error)", 404,
                           "Not Found")

\* C15: in execute and in get, a call with no destination that returned on
\* a success status returned no error and ran no decode; a decode has run
\* only in a call that has a destination.
C15_NilDestinationSkipsDecode ==
    /\ (ReturnedOnResponse /\ ~hasResult
           /\ SuccessStatus(fn, resp.StatusCode)
           /\ ret.kind # "ctx")
          => (ret = NilErr /\ decodes = 0)
    /\ decodes >= 1 => hasResult

\* The configurations New can build.
BuiltByNew == { New("httpClient", opts) : opts \in OptionLists }

SecondSameGet ==
    /\ fn = "get"
    /\ hasResult
    /\ ReturnedOnResponse
    /\ resp.StatusCode = 200
    /\ prev.set
    /\ prev.body = resp.body

\* C17: the same successful Get made twice on one Client, the server
\* answering the same both times, decodes once in each call, leaves the
\* same value in the two destinations and returns nil both times, whatever
\* the first call and the calls between the two went through.
C17_SameGetSameOutcome ==
    SecondSameGet
        => /\ ret = NilErr
           /\ prev.ret = NilErr
           /\ decodes = 1
           /\ prev.decodes = 1
           /\ dest = prev.dest
           /\ dest = resp.body.val

\* C17, its case: the second of two such Gets has returned, after a retry
\* the first one may not have had.
C17_Witness ==
    /\ pc = "done"
    /\ SecondSameGet
    /\ attempts = 2
    /\ dest = "v1"
    /\ prev.dest = "v1"

\* A call of execute that returned on a response.
ExecuteReturnedOnResponse == fn = "execute" /\ ReturnedOnResponse

\* C18: in execute the checks come in one order: retry-worthy, 204,
\* failure, success.  A response goes to decodeError exactly when its status
\* is not retry-worthy, not 204, outside [200,299] and no extra success
\* code; every other status in [200,299] is accepted whatever the extra
\* codes; a status outside [200,299] that is an extra success code is a
\* success and its body is decoded; and 429, 202 and 204 are handled the same
\* whether or not they are extra success codes.
C18_ExtraSuccessCodesAndOrder ==
    ExecuteReturnedOnResponse
        => LET s == resp.StatusCode
               worthy == s \in {202, 429}
           IN /\ errDecodes = 1
                    <=> (~worthy /\ s # 204 /\ s \notin 200..299
                            /\ s \notin needsStatus)
              /\ (s \in 200..299 /\ ~worthy /\ s # 204)
                    => (errDecodes = 0 /\ decodes = IF hasResult THEN 1 ELSE 0)
              /\ (s \notin 200..299 /\ ~worthy /\ s \in needsStatus)
                    => /\ errDecodes = 0
                       /\ decodes = IF hasResult THEN 1 ELSE 0
                       /\ (hasResult /\ ValidJSON(resp.body))
                             => (ret = NilErr /\ dest = resp.body.val)
                       /\ ~hasResult => ret = NilErr
              /\ worthy
                    => /\ decodes = 0
                       /\ errDecodes = 0
                       /\ ret.kind = IF client.autoRetry
                                     THEN "ctx"
                                     ELSE "TooManyRequests"
              /\ s = 204 => (ret = NilErr /\ decodes = 0 /\ errDecodes = 0)

\* C18, its case: a 404 that is an extra success code was decoded into the
\* destination of a call that had been retried on a 202.
C18_Witness ==
    /\ ExecuteReturnedOnResponse
    /\ resp.StatusCode = 404
    /\ needsStatus = {404}
    /\ hasResult
    /\ attempts = 2
    /\ decodes = 1
    /\ dest = "errobj"
    /\ ret = NilErr

\* An attempt that ends the call: the send failed, or the status is not
\* retry-worthy.
EndsTheCall == doErr # NilErr \/ ~RetryWorthy(fn, resp.StatusCode)

\* C19, only if: a call with autoRetry that has made an attempt and has
\* returned got a failed send or a status that is not retry-worthy on its
\* last attempt, or had its context cancelled; so a call that is answered
\* 429 (in execute also 202) every time and is never cancelled has not
\* returned.
C19_ReturnsOnlyIf ==
    (pc = "done" /\ client.autoRetry /\ attempts >= 1)
        => (EndsTheCall \/ (cancelled /\ ret.kind = "ctx"))

\* C19, no cap: however many attempts were retry-worthy (up to the bound
\* MaxAttempts of the model), the timer that has run down takes the loop
\* round again.
C19_NoAttemptCap ==
    (pc = "sleep" /\ sleepLeft <= 0 /\ attempts < MaxAttempts)
        => ENABLED SleepTimer

\* C19, where the call goes: an attempt that ends the call is followed by
\* the return and by nothing else, and so is a sleep with the context
\* cancelled.
C19_StepsToReturn ==
    /\ (pc = "classify" /\ EndsTheCall) => pc' \in {"classify", "done"}
    /\ (pc = "sleep" /\ cancelled) => pc' \in {"sleep", "done"}

\* A call at a point the claim says it leaves: an attempt that ends the call
\* is to be classified, or the call sleeps with the context cancelled, or it
\* sleeps before an attempt the model has room for.
C19_Waiting ==
    \/ pc = "classify" /\ EndsTheCall
    \/ pc = "sleep" /\ cancelled
    \/ pc = "sleep" /\ attempts < MaxAttempts

\* C19: the retry loop has no attempt cap; with autoRetry a call returns
\* only if an attempt ends the call or the context is cancelled; and under
\* fairness of the timer it does return then: an attempt that ends the call
\* leads to the return, a context cancelled during the sleep leads to the
\* return, and a sleep that is not cancelled leads to the next attempt.
C19_ReturnsIffAnsweredOrCancelled ==
    /\ [] C19_ReturnsOnlyIf
    /\ [] C19_NoAttemptCap
    /\ [][C19_StepsToReturn]_vars
    /\ C19_Waiting ~> (pc \in {"done", "build", "do"})

\* C19, its case: a call with autoRetry has returned nil on its third
\* attempt, after two retry-worthy answers and two sleeps the timer ended.
C19_Witness ==
    /\ pc = "done"
    /\ client.autoRetry
    /\ attempts = 3
    /\ sleeps = 2
    /\ wokenBy = "timer"
    /\ ~cancelled
    /\ ret = NilErr

\* C20: a call of get whose request could not be built has returned the
\* error of the build, with no send and no execution event, for every
\* Client, one with a non-empty Accept-Language included.
C20_BuildErrorIsReturned ==
    (fn = "get" /\ ~urlValid /\ pc # "build")
        => /\ pc = "done"
           /\ ret.kind = "build"
           /\ attempts = 0
           /\ events = << >>

====
